---- MODULE Spec2Model ----
(***************************************************************************)
(* Model of core/storage/src/chain/mempool/mod.rs: the MempoolSchema that  *)
(* persists the transactions awaiting execution.                           *)
(*                                                                         *)
(* The database is modelled by the two tables the schema reads and writes  *)
(* (mempool_txs, mempool_batch_binding), the sequence behind the `id`      *)
(* column, and the table of executed transactions that                     *)
(* operations_ext_schema().get_tx_by_hash() looks into.                    *)
(***************************************************************************)
EXTENDS Integers, Sequences, FiniteSets, TLC

\* ------------------------------------------------------------------ bounds
\* Largest id the mempool_txs sequence hands out.
MaxId == 3
\* The accounts that sign transactions.
Accounts == {1, 2}
\* The batch identifiers the batch collaborator uses.
BatchIds == {1, 2}
\* Number of stored payloads that get damaged behind the schema's back.
MaxCorrupt == 1

VARIABLES
    mempool_txs,            \* table mempool_txs: set of rows [id, tx_hash, tx]
    mempool_batch_binding,  \* table mempool_batch_binding: set of rows [mempool_tx_id, batch_id]
    next_id,                \* next value of the sequence behind mempool_txs.id
    executed,               \* hashes (bytes) of the transactions found by get_tx_by_hash
    fault,                  \* "none" | "storage" (every statement fails) | "ledger" (get_tx_by_hash fails)
    ret,                    \* what the step that led here returned to the caller (in memory only)
    accepted,               \* history: [id, tx] of every insert that returned Ok, minus hashes deleted since
    corrupted,              \* history: number of payloads damaged so far
    assigned,               \* history: every id the sequence has handed out
    gc                      \* locals of a collect_garbage() call that runs statement by statement

vars == <<mempool_txs, mempool_batch_binding, next_id, executed, fault, ret, accepted, corrupted,
          assigned, gc>>

\* ------------------------------------------------------------ transactions
\* FranklinTx values: who signed and with which nonce.
Txs == [account : Accounts, nonce : {0}]

\* FranklinTx::hash(): the content hash, as bytes.
TxHash(tx) == <<tx.account, tx.nonce>>

\* The hashes a caller may hand to remove_tx / remove_txs.
Hashes == {TxHash(tx) : tx \in Txs}

\* One hexadecimal digit.
HexDigit(n) ==
    CASE n = 0 -> "0" [] n = 1 -> "1" [] n = 2 -> "2" [] n = 3 -> "3"
      [] n = 4 -> "4" [] n = 5 -> "5" [] n = 6 -> "6" [] n = 7 -> "7"
      [] n = 8 -> "8" [] n = 9 -> "9" [] n = 10 -> "a" [] n = 11 -> "b"
      [] n = 12 -> "c" [] n = 13 -> "d" [] n = 14 -> "e" [] n = 15 -> "f"

\* hex::encode: two lowercase hexadecimal digits per byte.
RECURSIVE hex_encode(_)
hex_encode(bytes) ==
    IF bytes = <<>> THEN <<>>
    ELSE <<HexDigit(Head(bytes) \div 16), HexDigit(Head(bytes) % 16)>> \o hex_encode(Tail(bytes))

\* serde_json::to_value of a FranklinTx: an object, here its list of members.
to_value(tx) == <<<<"account", tx.account>>, <<"nonce", tx.nonce>>>>

\* serde_json::from_value into a FranklinTx: Ok(tx) or Err.
from_value(v) ==
    IF /\ Len(v) = 2
       /\ v[1][1] = "account" /\ v[1][2] \in Nat
       /\ v[2][1] = "nonce" /\ v[2][2] \in Nat
    THEN [ok |-> TRUE, tx |-> [account |-> v[1][2], nonce |-> v[2][2]]]
    ELSE [ok |-> FALSE, tx |-> [account |-> 0, nonce |-> 0]]

\* ------------------------------------------------------------- TxVariant
\* TxVariant::from(FranklinTx)
VariantTx(tx) == [kind |-> "Tx", txs |-> <<tx>>]

\* A conversion that turns a vector of one transaction into a Tx variant.
VariantBatch_unwrapped(txs) ==
    IF Len(txs) = 1 THEN VariantTx(txs[1]) ELSE [kind |-> "Batch", txs |-> txs]

\* TxVariant::from(Vec<FranklinTx>)
VariantBatch(txs) == [kind |-> "Batch", txs |-> txs]

\* TxVariant::hashes(): the hashes of every transaction of the variant.
hashes(variant) == [i \in 1..Len(variant.txs) |-> TxHash(variant.txs[i])]

\* ------------------------------------------------------------- load_txs
\* The element of a set of one element. A let binding, let x = value; body,
\* is written The({body : x \in {value}}): the value is computed once.
The(S) == CHOOSE x \in S : TRUE

None == <<>>
Some(x) == <<x>>

\* get_batch_id(batch): the batch id of an optional binding.
get_batch_id(batch) == IF batch = None THEN None ELSE Some(batch[1].batch_id)

\* The query without its ORDER BY: rows come back newest first.
RECURSIVE OrderById_desc(_)
OrderById_desc(rows) ==
    IF rows = {} THEN <<>>
    ELSE LET first == CHOOSE r \in rows : \A o \in rows : r.id >= o.id
         IN  <<first>> \o OrderById_desc(rows \ {first})

\* ORDER BY mempool_txs.id: the rows of mempool_txs in ascending id.
RECURSIVE OrderById(_)
OrderById(rows) ==
    IF rows = {} THEN <<>>
    ELSE The({<<first>> \o OrderById(rows \ {first}) :
                  first \in {r \in rows : \A o \in rows : r.id <= o.id}})

\* The bindings of one transaction, one joined row each (by batch id).
RECURSIVE OrderByBatch(_)
OrderByBatch(rows) ==
    IF rows = {} THEN <<>>
    ELSE LET first == CHOOSE r \in rows : \A o \in rows : r.batch_id <= o.batch_id
         IN  <<first>> \o OrderByBatch(rows \ {first})

\* A join ON mempool_tx_id <= mempool_txs.id: a row takes the bindings of older rows too.
JoinRow_older(row, bindings) ==
    LET matching == OrderByBatch({b \in bindings : b.mempool_tx_id <= row.id})
    IN  IF matching = <<>> THEN <<[tx |-> row, batch |-> None]>>
        ELSE [i \in 1..Len(matching) |-> [tx |-> row, batch |-> Some(matching[i])]]

\* One row of the query: the transaction and its binding, if it has one.
JoinRow(row, bindings) ==
    LET matching == OrderByBatch({b \in bindings : b.mempool_tx_id = row.id})
    IN  IF matching = <<>> THEN <<[tx |-> row, batch |-> None]>>
        ELSE [i \in 1..Len(matching) |-> [tx |-> row, batch |-> Some(matching[i])]]

\* SELECT * FROM mempool_txs LEFT JOIN mempool_batch_binding
\*   ON mempool_txs.id = mempool_tx_id ORDER BY mempool_txs.id
RECURSIVE JoinAll(_, _)
JoinAll(rows, bindings) ==
    IF rows = <<>> THEN <<>>
    ELSE JoinRow(Head(rows), bindings) \o JoinAll(Tail(rows), bindings)

Query(txs_table, bindings) == The({JoinAll(rows, bindings) : rows \in {OrderById(txs_table)}})

\* A grouping that never merges: every row is a group of its own.
group_by_rows(rows) ==
    [i \in 1..Len(rows) |-> [key |-> get_batch_id(rows[i].batch), group |-> <<rows[i]>>]]

\* A grouping on is_some() of the batch id: neighbouring batches are merged.
RECURSIVE group_by_is_some(_)
group_by_is_some(rows) ==
    IF rows = <<>> THEN <<>>
    ELSE LET key == get_batch_id(Head(rows).batch)
         IN  The({IF rest # <<>> /\ (rest[1].key = None) = (key = None)
                  THEN <<[key |-> key, group |-> <<Head(rows)>> \o rest[1].group]>> \o Tail(rest)
                  ELSE <<[key |-> key, group |-> <<Head(rows)>>]>> \o rest :
                  rest \in {group_by_is_some(Tail(rows))}})

\* Itertools::group_by on the batch id: maximal runs of consecutive rows with
\* the same key, each as [key, group].
RECURSIVE group_by(_)
group_by(rows) ==
    IF rows = <<>> THEN <<>>
    ELSE LET key == get_batch_id(Head(rows).batch)
         IN  The({IF rest # <<>> /\ rest[1].key = key
                  THEN <<[key |-> key, group |-> <<Head(rows)>> \o rest[1].group]>> \o Tail(rest)
                  ELSE <<[key |-> key, group |-> <<Head(rows)>>]>> \o rest :
                  rest \in {group_by(Tail(rows))}})

\* A collect that drops the payloads it cannot read (filter_map for map).
RECURSIVE deserialize_lenient(_)
deserialize_lenient(group) ==
    IF group = <<>> THEN [ok |-> TRUE, txs |-> <<>>]
    ELSE LET head == from_value(Head(group).tx.tx)
             rest == deserialize_lenient(Tail(group))
         IN  [ok |-> TRUE, txs |-> (IF head.ok THEN <<head.tx>> ELSE <<>>) \o rest.txs]

\* group.map(from_value).collect::<Result<Vec<_>, _>>()
RECURSIVE deserialize(_)
deserialize(group) ==
    IF group = <<>> THEN [ok |-> TRUE, txs |-> <<>>]
    ELSE LET head == from_value(Head(group).tx.tx)
             rest == deserialize(Tail(group))
         IN  IF head.ok /\ rest.ok
             THEN [ok |-> TRUE, txs |-> <<head.tx>> \o rest.txs]
             ELSE [ok |-> FALSE, txs |-> <<>>]

\* The for loop without the match on batch_id: every group becomes one Batch.
RECURSIVE push_groups_unmatched(_, _)
push_groups_unmatched(groups, txs) ==
    IF groups = <<>> THEN [status |-> "Ok", queue |-> txs]
    ELSE LET deserialized_txs == deserialize(Head(groups).group)
         IN  IF ~deserialized_txs.ok THEN [status |-> "Err", queue |-> <<>>]
             ELSE push_groups_unmatched(Tail(groups), Append(txs, VariantBatch(deserialized_txs.txs)))

\* The for loop of load_txs over the groups, with the queue built so far.
RECURSIVE push_groups(_, _)
push_groups(groups, txs) ==
    IF groups = <<>> THEN [status |-> "Ok", queue |-> txs]
    ELSE LET deserialized_txs == deserialize(Head(groups).group)
         IN  IF ~deserialized_txs.ok THEN [status |-> "Err", queue |-> <<>>]
             ELSE IF Head(groups).key # None
             THEN push_groups(Tail(groups), Append(txs, VariantBatch(deserialized_txs.txs)))
             ELSE push_groups(Tail(groups),
                      txs \o [i \in 1..Len(deserialized_txs.txs) |-> VariantTx(deserialized_txs.txs[i])])

\* load_txs(): Ok(queue) or Err.
load_txs(txs_table, bindings, flt) ==
    IF flt = "storage" THEN [status |-> "Err", queue |-> <<>>]
    ELSE The({push_groups(grouped_txs, <<>>) :
                  grouped_txs \in {group_by(txs) : txs \in {Query(txs_table, bindings)}}})

\* ------------------------------------------------------ delete statements
\* The elements of a sequence.
Range(seq) == {seq[i] : i \in 1..Len(seq)}

\* The DELETE stopping at the first match: only the oldest row of the hash goes.
delete_eq_first(txs_table, tx_hash) ==
    {r \in txs_table :
        \/ r.tx_hash # tx_hash
        \/ \E o \in txs_table : o.tx_hash = tx_hash /\ o.id < r.id}

\* The DELETE without its filter: no row stays.
delete_eq_unfiltered(txs_table, tx_hash) == {}

\* DELETE FROM mempool_txs WHERE tx_hash = $1: the rows that stay.
delete_eq(txs_table, tx_hash) == {r \in txs_table : r.tx_hash # tx_hash}

\* The DELETE comparing with the first hash of the list only (eq for eq_any).
delete_eq_any_head(txs_table, tx_hashes) ==
    {r \in txs_table : tx_hashes = <<>> \/ r.tx_hash # tx_hashes[1]}

\* DELETE FROM mempool_txs WHERE tx_hash = ANY($1): the rows that stay.
delete_eq_any(txs_table, tx_hashes) == {r \in txs_table : r.tx_hash \notin Range(tx_hashes)}

\* What a DELETE on mempool_txs does to mempool_batch_binding: nothing.
bindings_after_delete(bindings, deleted_rows) == bindings

\* -------------------------------------------------------- collect_garbage
\* The lookup with is_none() for is_some(): the pending transactions are marked.
is_not_executed(tx, ledger) == TxHash(tx) \notin ledger

\* get_tx_by_hash(hash).expect(..).is_some() for one transaction.
is_executed(tx, ledger) == TxHash(tx) \in ledger

\* A retain that passes over Batch variants instead of stopping at them.
RECURSIVE retain_skipping(_, _, _)
retain_skipping(queue, ledger, flt) ==
    IF queue = <<>> THEN [status |-> "Ok", kept |-> <<>>]
    ELSE IF Head(queue).kind = "Batch" THEN retain_skipping(Tail(queue), ledger, flt)
    ELSE IF flt = "ledger" THEN [status |-> "Panic", kept |-> <<>>]
    ELSE LET rest == retain_skipping(Tail(queue), ledger, flt)
         IN  IF rest.status # "Ok" THEN rest
             ELSE IF is_executed(Head(queue).txs[1], ledger)
             THEN [status |-> "Ok", kept |-> <<Head(queue)>> \o rest.kept]
             ELSE rest

\* txs_to_remove.retain(..): scans the queue front to back; a failed lookup
\* and a Batch variant both panic, otherwise the executed transactions stay.
RECURSIVE retain(_, _, _)
retain(queue, ledger, flt) ==
    IF queue = <<>> THEN [status |-> "Ok", kept |-> <<>>]
    ELSE IF Head(queue).kind = "Batch" THEN [status |-> "Panic", kept |-> <<>>]
    ELSE IF flt = "ledger" THEN [status |-> "Panic", kept |-> <<>>]
    ELSE LET rest == retain(Tail(queue), ledger, flt)
         IN  IF rest.status # "Ok" THEN rest
             ELSE IF is_executed(Head(queue).txs[1], ledger)
             THEN [status |-> "Ok", kept |-> <<Head(queue)>> \o rest.kept]
             ELSE rest

\* txs_to_remove.into_iter().map(|tx| tx.hashes()).flatten().collect()
RECURSIVE flatten_hashes(_)
flatten_hashes(variants) ==
    IF variants = <<>> THEN <<>>
    ELSE hashes(Head(variants)) \o flatten_hashes(Tail(variants))

\* hex::encode of every hash of a list.
encode_all(hs) == [i \in 1..Len(hs) |-> hex_encode(hs[i])]

\* collect_garbage() on a store: the status it ends with and the rows left.
garbage_collected(txs_table, bindings, ledger, flt) ==
    LET loaded == load_txs(txs_table, bindings, flt)
    IN  IF loaded.status # "Ok" THEN [status |-> "Err", rows |-> txs_table]
        ELSE LET txs_to_remove == retain(loaded.queue, ledger, flt)
             IN  IF txs_to_remove.status # "Ok" THEN [status |-> "Panic", rows |-> txs_table]
                 ELSE [status |-> "Ok",
                       rows |-> delete_eq_any(txs_table, encode_all(flatten_hashes(txs_to_remove.kept)))]

\* ------------------------------------------------------------------ state
Returned(op, status, queue, deleted) ==
    [op |-> op, status |-> status, queue |-> queue, deleted |-> deleted]

NoReturn == Returned("none", "Ok", <<>>, 0)

\* The locals of collect_garbage(): where the call stands, the variants still
\* to look up and the txs_to_remove retained so far.
Collection(pc, todo, kept) == [pc |-> pc, todo |-> todo, kept |-> kept]

NoCollection == Collection("idle", <<>>, <<>>)

\* Lists of distinct hashes, the arguments of remove_txs.
HashLists ==
    {hs \in UNION {[1..n -> Hashes] : n \in 0..Cardinality(Hashes)} :
        \A i, j \in 1..Len(hs) : i # j => hs[i] # hs[j]}

Init ==
    /\ mempool_txs = {}
    /\ mempool_batch_binding = {}
    /\ next_id = 1
    /\ executed = {}
    /\ fault = "none"
    /\ ret = NoReturn
    /\ accepted = {}
    /\ corrupted = 0
    /\ assigned = {}
    /\ gc = NoCollection

\* let txs = load_txs()
LoadTxs ==
    /\ LET r == load_txs(mempool_txs, mempool_batch_binding, fault)
       IN  ret' = Returned("load_txs", r.status, r.queue, 0)
    /\ UNCHANGED <<mempool_txs, mempool_batch_binding, next_id, assigned, executed, fault, accepted, corrupted, gc>>

\* NewMempoolTx { tx_hash, tx }: the hex of the hash and the serialized transaction.
NewMempoolTx(tx_data) == [tx_hash |-> hex_encode(TxHash(tx_data)), tx |-> to_value(tx_data)]

\* The sequence behind mempool_txs.id: the value after `id`.
nextval(id) == id + 1

\* INSERT INTO mempool_txs: the row gets the next value of the id sequence.
inserted_row(db_entry, id) == [id |-> id, tx_hash |-> db_entry.tx_hash, tx |-> db_entry.tx]

\* An insert that skips a transaction whose hash is stored already.
insert_into_unique(txs_table, db_entry, id) ==
    IF \E r \in txs_table : r.tx_hash = db_entry.tx_hash THEN txs_table
    ELSE txs_table \cup {inserted_row(db_entry, id)}

\* diesel::insert_into(mempool_txs::table).values(db_entry): the table afterwards.
insert_into(txs_table, db_entry, id) == txs_table \cup {inserted_row(db_entry, id)}

\* insert_tx(tx_data)
InsertTx(tx_data) ==
    /\ next_id <= MaxId
    /\ IF fault = "storage"
       THEN /\ ret' = Returned("insert_tx", "Err", <<>>, 0)
            /\ UNCHANGED <<mempool_txs, next_id, accepted, assigned>>
       ELSE LET db_entry == NewMempoolTx(tx_data)
            IN  /\ mempool_txs' = insert_into(mempool_txs, db_entry, next_id)
                /\ next_id' = nextval(next_id)
                /\ ret' = Returned("insert_tx", "Ok", <<>>, 0)
                /\ accepted' = accepted \cup {[id |-> next_id, tx |-> tx_data]}
                /\ assigned' = assigned \cup {next_id}
    /\ UNCHANGED <<mempool_batch_binding, executed, fault, corrupted, gc>>

\* remove_tx(tx)
RemoveTx(tx) ==
    /\ IF fault = "storage"
       THEN /\ ret' = Returned("remove_tx", "Err", <<>>, 0)
            /\ UNCHANGED <<mempool_txs, mempool_batch_binding, accepted>>
       ELSE LET left == delete_eq(mempool_txs, hex_encode(tx))
            IN  /\ mempool_txs' = left
                /\ mempool_batch_binding' =
                       bindings_after_delete(mempool_batch_binding, mempool_txs \ left)
                /\ ret' = Returned("remove_tx", "Ok", <<>>, Cardinality(mempool_txs \ left))
                /\ accepted' = {a \in accepted : TxHash(a.tx) # tx}
    /\ UNCHANGED <<next_id, assigned, executed, fault, corrupted, gc>>

\* remove_txs(txs)
RemoveTxs(txs) ==
    /\ IF fault = "storage"
       THEN /\ ret' = Returned("remove_txs", "Err", <<>>, 0)
            /\ UNCHANGED <<mempool_txs, mempool_batch_binding, accepted>>
       ELSE LET left == delete_eq_any(mempool_txs, encode_all(txs))
            IN  /\ mempool_txs' = left
                /\ mempool_batch_binding' =
                       bindings_after_delete(mempool_batch_binding, mempool_txs \ left)
                /\ ret' = Returned("remove_txs", "Ok", <<>>, Cardinality(mempool_txs \ left))
                /\ accepted' = {a \in accepted : TxHash(a.tx) \notin Range(txs)}
    /\ UNCHANGED <<next_id, assigned, executed, fault, corrupted, gc>>

\* collect_garbage(), with nothing else running between its statements
CollectGarbage ==
    /\ LET r == garbage_collected(mempool_txs, mempool_batch_binding, executed, fault)
       IN  /\ mempool_txs' = r.rows
           /\ mempool_batch_binding' =
                  bindings_after_delete(mempool_batch_binding, mempool_txs \ r.rows)
           /\ ret' = Returned("collect_garbage", r.status, <<>>, Cardinality(mempool_txs \ r.rows))
           /\ accepted' = IF r.status = "Ok"
                          THEN {a \in accepted : TxHash(a.tx) \notin executed}
                          ELSE accepted
    /\ UNCHANGED <<next_id, assigned, executed, fault, corrupted, gc>>

\* The batch collaborator binds a stored transaction that has no binding yet.
Bind(id, batch_id) ==
    /\ \E r \in mempool_txs : r.id = id
    /\ \A b \in mempool_batch_binding : b.mempool_tx_id # id
    /\ mempool_batch_binding' =
           mempool_batch_binding \cup {[mempool_tx_id |-> id, batch_id |-> batch_id]}
    /\ ret' = NoReturn
    /\ UNCHANGED <<mempool_txs, next_id, assigned, executed, fault, accepted, corrupted, gc>>

\* A block with the transaction is committed: get_tx_by_hash finds it from now on.
Execute(hash) ==
    /\ hash \notin executed
    /\ executed' = executed \cup {hash}
    /\ ret' = NoReturn
    /\ UNCHANGED <<mempool_txs, mempool_batch_binding, next_id, assigned, fault, accepted, corrupted, gc>>

\* A stored payload loses a member behind the schema's back.
Corrupt(id) ==
    /\ corrupted < MaxCorrupt
    /\ \E r \in mempool_txs :
          /\ r.id = id
          /\ Len(r.tx) = 2
          /\ mempool_txs' = (mempool_txs \ {r}) \cup {[r EXCEPT !.tx = <<r.tx[1]>>]}
    /\ corrupted' = corrupted + 1
    /\ ret' = NoReturn
    /\ UNCHANGED <<mempool_batch_binding, next_id, assigned, executed, fault, accepted, gc>>

\* The database, or the executed-transactions lookup alone, starts or stops failing.
SetFault(f) ==
    /\ f # fault
    /\ fault' = f
    /\ ret' = NoReturn
    /\ UNCHANGED <<mempool_txs, mempool_batch_binding, next_id, assigned, executed, accepted, corrupted, gc>>

\* The server restarts: everything in memory is lost, the database stays.
Restart ==
    /\ ret' = Returned("restart", "Ok", <<>>, 0)
    /\ UNCHANGED <<mempool_txs, mempool_batch_binding, next_id, assigned, executed, fault, accepted, corrupted, gc>>

\* collect_garbage(), first statement: self.load_txs()?
GcLoad ==
    /\ gc.pc = "idle"
    /\ LET loaded == load_txs(mempool_txs, mempool_batch_binding, fault)
       IN  IF loaded.status # "Ok"
           THEN /\ ret' = Returned("collect_garbage", "Err", <<>>, 0)
                /\ gc' = NoCollection
           ELSE /\ ret' = NoReturn
                /\ gc' = Collection("retain", loaded.queue, <<>>)
    /\ UNCHANGED <<mempool_txs, mempool_batch_binding, next_id, assigned, executed, fault, accepted,
                   corrupted>>

\* collect_garbage(), one call of the retain closure: one variant is looked up.
GcLookup ==
    /\ gc.pc = "retain"
    /\ gc.todo # <<>>
    /\ LET looked == retain(<<Head(gc.todo)>>, executed, fault)
       IN  IF looked.status # "Ok"
           THEN /\ ret' = Returned("collect_garbage", "Panic", <<>>, 0)
                /\ gc' = NoCollection
           ELSE /\ ret' = NoReturn
                /\ gc' = Collection("retain", Tail(gc.todo), gc.kept \o looked.kept)
    /\ UNCHANGED <<mempool_txs, mempool_batch_binding, next_id, assigned, executed, fault, accepted,
                   corrupted>>

\* collect_garbage(), last statement: self.remove_txs(&tx_hashes)?; the list of
\* the finished call stays in gc.kept until the next call starts.
GcRemove ==
    /\ gc.pc = "retain"
    /\ gc.todo = <<>>
    /\ gc' = Collection("idle", <<>>, gc.kept)
    /\ IF fault = "storage"
       THEN /\ ret' = Returned("collect_garbage", "Err", <<>>, 0)
            /\ UNCHANGED <<mempool_txs, mempool_batch_binding, accepted>>
       ELSE LET tx_hashes == flatten_hashes(gc.kept)
                left == delete_eq_any(mempool_txs, encode_all(tx_hashes))
            IN  /\ mempool_txs' = left
                /\ mempool_batch_binding' =
                       bindings_after_delete(mempool_batch_binding, mempool_txs \ left)
                /\ ret' = Returned("collect_garbage", "Ok", <<>>, Cardinality(mempool_txs \ left))
                /\ accepted' = {a \in accepted : TxHash(a.tx) \notin Range(tx_hashes)}
    /\ UNCHANGED <<next_id, assigned, executed, fault, corrupted>>

\* The batch id used where the identity of the batch makes no difference.
AnyBatch == CHOOSE b \in BatchIds : TRUE

\* Every operation of the schema, with a healthy database and intact payloads.
Next ==
    \/ LoadTxs
    \/ \E tx \in Txs : InsertTx(tx)
    \/ \E h \in Hashes : RemoveTx(h)
    \/ \E hs \in HashLists : RemoveTxs(hs)
    \/ CollectGarbage
    \/ \E id \in 1..MaxId, b \in BatchIds : Bind(id, b)
    \/ \E h \in Hashes : Execute(h)
    \/ Restart

Spec == Init /\ [][Next]_vars

\* The queue alone: the writer, the loader and the batch collaborator.
NextQueue ==
    \/ LoadTxs
    \/ \E tx \in Txs : InsertTx(tx)
    \/ \E h \in Hashes : RemoveTx(h)
    \/ \E hs \in HashLists : RemoveTxs(hs)
    \/ \E id \in 1..MaxId, b \in BatchIds : Bind(id, b)
    \/ Restart

SpecQueue == Init /\ [][NextQueue]_vars

\* Garbage collection among the other operations; it treats every batch alike,
\* so the collaborator binds to one batch.
NextCollect ==
    \/ LoadTxs
    \/ \E tx \in Txs : InsertTx(tx)
    \/ \E h \in Hashes : RemoveTx(h)
    \/ \E hs \in HashLists : RemoveTxs(hs)
    \/ CollectGarbage
    \/ \E id \in 1..MaxId : Bind(id, AnyBatch)
    \/ \E h \in Hashes : Execute(h)
    \/ Restart

SpecCollect == Init /\ [][NextCollect]_vars

\* Loading and collecting while stored payloads get damaged.
NextCorrupt ==
    \/ LoadTxs
    \/ \E tx \in Txs : InsertTx(tx)
    \/ CollectGarbage
    \/ \E id \in 1..MaxId : Bind(id, AnyBatch)
    \/ \E h \in Hashes : Execute(h)
    \/ \E id \in 1..MaxId : Corrupt(id)

SpecCorrupt == Init /\ [][NextCorrupt]_vars

\* The schema while the database or the executed-transactions lookup fails.
NextFaults ==
    \/ NextCollect
    \/ \E f \in {"none", "storage", "ledger"} : SetFault(f)

SpecFaults == Init /\ [][NextFaults]_vars

\* collect_garbage() statement by statement, among calls of the writer and
\* blocks being committed.
NextInterleaved ==
    \/ \E tx \in Txs : InsertTx(tx)
    \/ \E h \in Hashes : RemoveTx(h)
    \/ \E hs \in HashLists : RemoveTxs(hs)
    \/ \E h \in Hashes : Execute(h)
    \/ GcLoad
    \/ GcLookup
    \/ GcRemove

SpecInterleaved == Init /\ [][NextInterleaved]_vars

\* collect_garbage() invoked again and again, every started call running on
\* to its end, while transactions are inserted, removed one at a time and
\* executed, and the oldest one may be accepted as a batch.
NextPeriodic ==
    \/ \E tx \in Txs : InsertTx(tx)
    \/ \E h \in Hashes : RemoveTx(h)
    \/ \E h \in Hashes : Execute(h)
    \/ GcLoad
    \/ GcLookup
    \/ GcRemove
    \/ Bind(1, AnyBatch)

SpecPeriodic ==
    /\ Init /\ [][NextPeriodic]_vars
    /\ WF_vars(GcLoad)
    /\ WF_vars(GcLookup)
    /\ WF_vars(GcRemove)

\* ================================================================ claims
\* What load_txs() returns in the current state.
Loaded == load_txs(mempool_txs, mempool_batch_binding, fault)

\* The transactions of a queue, variant after variant.
RECURSIVE Flatten(_)
Flatten(queue) == IF queue = <<>> THEN <<>> ELSE Head(queue).txs \o Flatten(Tail(queue))

\* How often x occurs in a sequence.
Occurrences(seq, x) == Cardinality({i \in 1..Len(seq) : seq[i] = x})

\* The records of S, which have distinct ids, in ascending id.
Ascending(S) ==
    [i \in 1..Cardinality(S) |-> CHOOSE a \in S : Cardinality({b \in S : b.id <= a.id}) = i]

\* The positions of the Tx variants of a queue whose transaction has hash h.
Singles(queue, h) ==
    {i \in 1..Len(queue) : queue[i].kind = "Tx" /\ TxHash(queue[i].txs[1]) = h}

\* The hash of the transaction a stored row was inserted for.
HashOfRow(r) == CHOOSE h \in Hashes : \E a \in accepted : a.id = r.id /\ TxHash(a.tx) = h

\* The row has a binding.
Bound(r) == \E b \in mempool_batch_binding : b.mempool_tx_id = r.id

\* C1 (state part): a load that succeeds returns every transaction whose
\* insert returned Ok and whose hash was not deleted since, as often as it
\* was accepted.
C1_AcceptedAreLoaded ==
    Loaded.status = "Ok" =>
        \A tx \in Txs :
            Occurrences(Flatten(Loaded.queue), tx) >= Cardinality({a \in accepted : a.tx = tx})

\* C1: durability across restarts. In every state, also right after a
\* restart, load_txs() returns every accepted transaction that was not deleted
\* since, and a restart does not change what load_txs() returns.
C1_Durability ==
    /\ []C1_AcceptedAreLoaded
    /\ [][Restart => load_txs(mempool_txs', mempool_batch_binding', fault') = Loaded]_vars

\* C1 witness: the process has just restarted while transactions are pending
\* and others were deleted before.
C1_Witness ==
    /\ ret.op = "restart"
    /\ Cardinality(accepted) >= 2
    /\ Cardinality(accepted) < next_id - 1
    /\ Loaded.status = "Ok"
    /\ Len(Loaded.queue) >= 2

\* C2 as claimed: whatever the store held before, insert_tx(t) followed at
\* once by load_txs() gives a queue with exactly one Tx variant of t's hash,
\* and its payload is t.
C2_ExactlyOneSingle ==
    [][\A t \in Txs :
          (InsertTx(t) /\ ret'.status = "Ok") =>
              LET r == load_txs(mempool_txs', mempool_batch_binding', fault')
              IN  /\ r.status = "Ok"
                  /\ Cardinality(Singles(r.queue, TxHash(t))) = 1
                  /\ \A i \in Singles(r.queue, TxHash(t)) : r.queue[i].txs[1] = t]_vars

\* C2 amended: insert_tx(t) followed at once by load_txs() gives a queue whose
\* last element is the Tx variant of t, payload identical; the Tx variants of
\* t's hash are one more than the unbound rows of that hash stored before, so
\* exactly one when there was none.
C2_RoundTrip ==
    [][\A t \in Txs :
          (InsertTx(t) /\ ret'.status = "Ok") =>
              LET r == load_txs(mempool_txs', mempool_batch_binding', fault')
                  before == {x \in mempool_txs : ~Bound(x) /\ HashOfRow(x) = TxHash(t)}
              IN  /\ r.status = "Ok"
                  /\ Len(r.queue) >= 1
                  /\ r.queue[Len(r.queue)] = [kind |-> "Tx", txs |-> <<t>>]
                  /\ Cardinality(Singles(r.queue, TxHash(t))) = Cardinality(before) + 1
                  /\ \A i \in Singles(r.queue, TxHash(t)) : r.queue[i].txs[1] = t]_vars

\* C2 witness: a transaction has just been inserted into a store that holds
\* another transaction and a batched one, and none of its own hash.
C2_Witness ==
    /\ ret.op = "insert_tx" /\ ret.status = "Ok"
    /\ Cardinality(mempool_txs) = 3
    /\ \E r \in mempool_txs : Bound(r)
    /\ Cardinality(Singles(Loaded.queue, HashOfRow(CHOOSE r \in mempool_txs : r.id = next_id - 1))) = 1

\* C3: order preservation. With no batch binding, load_txs() returns one Tx
\* variant per surviving row, in the order of insertion.
C3_OrderPreserved ==
    mempool_batch_binding = {} =>
        /\ Loaded.status = "Ok"
        /\ Loaded.queue =
               [i \in 1..Cardinality(accepted) |-> [kind |-> "Tx", txs |-> <<Ascending(accepted)[i].tx>>]]

\* C3 witness: a load returned two different transactions that survived a removal.
C3_Witness ==
    /\ mempool_batch_binding = {}
    /\ ret.op = "load_txs" /\ ret.status = "Ok"
    /\ Len(ret.queue) = 2
    /\ ret.queue[1] # ret.queue[2]
    /\ next_id = 4

\* The batch id a stored row is bound to, as an Option.
BatchOf(r) ==
    IF Bound(r)
    THEN Some((CHOOSE b \in mempool_batch_binding : b.mempool_tx_id = r.id).batch_id)
    ELSE None

\* The stored rows in ascending id.
Rows == Ascending(mempool_txs)

\* The rows of every batch are next to each other in id order.
Contiguous ==
    \A i, j, k \in 1..Len(Rows) :
        (i < k /\ k < j /\ BatchOf(Rows[i]) # None /\ BatchOf(Rows[i]) = BatchOf(Rows[j]))
            => BatchOf(Rows[k]) = BatchOf(Rows[i])

\* The position, among all transactions of the queue, of the first one of variant i.
RECURSIVE Start(_, _)
Start(queue, i) == IF i = 1 THEN 1 ELSE Start(queue, i - 1) + Len(queue[i - 1].txs)

\* The transaction a row was inserted for.
TxOfRow(r) == (CHOOSE a \in accepted : a.id = r.id).tx

\* C4: batch grouping. When the rows of every batch are contiguous, the
\* members of the loaded variants, taken in order, are the stored rows in
\* ascending id; a Tx variant stands for an unbound row, and a Batch variant
\* covers exactly the rows of one batch id, all of them.
C4_BatchGrouping ==
    Contiguous =>
        LET q == Loaded.queue
        IN  /\ Loaded.status = "Ok"
            /\ Flatten(q) = [k \in 1..Len(Rows) |-> TxOfRow(Rows[k])]
            /\ \A i \in 1..Len(q) :
                  LET covered == Start(q, i)..(Start(q, i) + Len(q[i].txs) - 1)
                  IN  /\ q[i].kind = "Tx" =>
                            Len(q[i].txs) = 1 /\ BatchOf(Rows[Start(q, i)]) = None
                      /\ q[i].kind = "Batch" =>
                            \E b \in BatchIds :
                                covered = {k \in 1..Len(Rows) : BatchOf(Rows[k]) = Some(b)}

\* C4 witness: a load returned a Tx variant followed by a Batch of two.
C4_Witness ==
    /\ ret.op = "load_txs" /\ ret.status = "Ok"
    /\ Contiguous
    /\ Len(ret.queue) = 2
    /\ ret.queue[1].kind = "Tx"
    /\ ret.queue[2].kind = "Batch" /\ Len(ret.queue[2].txs) = 2

\* C5: idempotent removal. remove_tx of a hash no stored row carries, and
\* remove_txs of hashes none of which is stored, return Ok and leave both
\* tables as they are; after remove_tx(h), removing h again deletes nothing.
C5_IdempotentRemoval ==
    [][/\ \A h \in Hashes :
            /\ (RemoveTx(h) /\ \A r \in mempool_txs : HashOfRow(r) # h) =>
                   /\ ret'.status = "Ok"
                   /\ UNCHANGED <<mempool_txs, mempool_batch_binding>>
            /\ RemoveTx(h) =>
                   /\ \A r \in mempool_txs' : r.tx_hash # hex_encode(h)
                   /\ delete_eq(mempool_txs', hex_encode(h)) = mempool_txs'
       /\ \A hs \in HashLists :
            (RemoveTxs(hs) /\ \A r \in mempool_txs : HashOfRow(r) \notin Range(hs)) =>
                   /\ ret'.status = "Ok"
                   /\ UNCHANGED <<mempool_txs, mempool_batch_binding>>]_vars

\* C5 witness: remove_tx returned Ok having deleted nothing from a store that
\* holds rows and bindings.
C5_Witness ==
    /\ ret.op = "remove_tx" /\ ret.status = "Ok" /\ ret.deleted = 0
    /\ mempool_txs # {}
    /\ mempool_batch_binding # {}

\* C6: selective garbage collection. With no batched row in the store,
\* collect_garbage() returns Ok and leaves exactly the rows whose hash is not
\* among the executed transactions, each as it was.
C6_SelectiveGarbageCollection ==
    [][(CollectGarbage /\ \A r \in mempool_txs : ~Bound(r)) =>
          /\ ret'.status = "Ok"
          /\ mempool_txs' = {r \in mempool_txs : HashOfRow(r) \notin executed}
          /\ Ascending(mempool_txs') =
                 SelectSeq(Ascending(mempool_txs), LAMBDA r : HashOfRow(r) \notin executed)]_vars

\* C6 witness: collect_garbage() deleted one of three rows.
C6_Witness ==
    /\ ret.op = "collect_garbage" /\ ret.status = "Ok" /\ ret.deleted = 1
    /\ Cardinality(mempool_txs) = 2
    /\ executed # {}

\* A stored payload that is not the serialization of a transaction.
Undeserializable(r) == r.tx \notin {to_value(t) : t \in Txs}

\* C7: fail-fast deserialization. With one undeserializable payload in the
\* store, load_txs() returns Err and no queue, and collect_garbage() returns
\* Err; neither changes a table.
C7_FailFast ==
    [][(\E r \in mempool_txs : Undeserializable(r)) =>
          /\ LoadTxs =>
                /\ ret'.status = "Err" /\ ret'.queue = <<>>
                /\ UNCHANGED <<mempool_txs, mempool_batch_binding>>
          /\ CollectGarbage =>
                /\ ret'.status = "Err"
                /\ UNCHANGED <<mempool_txs, mempool_batch_binding>>]_vars

\* C7 witness: load_txs() returned Err on a store whose newest row is batched
\* and damaged, after two intact rows of which one is executed.
C7_Witness ==
    /\ ret.op = "load_txs" /\ ret.status = "Err"
    /\ Cardinality(mempool_txs) = 3
    /\ \E r \in mempool_txs :
          /\ Undeserializable(r) /\ Bound(r) /\ r.id = 3
          /\ \E o \in mempool_txs : o.id < r.id /\ ~Bound(o) /\ HashOfRow(o) \in executed

\* C8: unreconciled batch. When the loaded queue holds a Batch variant,
\* collect_garbage() panics, never returning Ok, and deletes nothing; and
\* collect_garbage() never deletes a batched row.
C8_BatchStopsCollection ==
    [][CollectGarbage =>
          /\ (Loaded.status = "Ok" /\ \E i \in 1..Len(Loaded.queue) : Loaded.queue[i].kind = "Batch") =>
                /\ ret'.status = "Panic"
                /\ UNCHANGED <<mempool_txs, mempool_batch_binding>>
          /\ \A r \in mempool_txs : Bound(r) => r \in mempool_txs']_vars

\* C8 witness: collect_garbage() panicked on a store where an executed unbound
\* row comes before a batched one.
C8_Witness ==
    /\ ret.op = "collect_garbage" /\ ret.status = "Panic"
    /\ \E r, o \in mempool_txs :
          /\ o.id < r.id /\ Bound(r) /\ ~Bound(o)
          /\ HashOfRow(o) \in executed

\* C9 as claimed: when the lookup of executed transactions fails during
\* collect_garbage(), the call returns Err to its caller and deletes nothing.
C9_LookupFailureReturned ==
    [][(/\ CollectGarbage
        /\ fault = "ledger"
        /\ mempool_txs # {}
        /\ \A r \in mempool_txs : ~Bound(r)) =>
          /\ ret'.status = "Err"
          /\ UNCHANGED <<mempool_txs, mempool_batch_binding>>]_vars

\* C10: effect and frame of remove_tx. It deletes every row of the hash, keeps
\* every other row as it was, and leaves the binding table alone.
C10_RemoveFrame ==
    [][\A h \in Hashes :
          RemoveTx(h) =>
              /\ mempool_txs' = {r \in mempool_txs : HashOfRow(r) # h}
              /\ mempool_batch_binding' = mempool_batch_binding]_vars

\* C10 witness: remove_tx deleted two rows of one hash, another row stayed,
\* and a binding of a deleted row is left behind.
C10_Witness ==
    /\ ret.op = "remove_tx" /\ ret.status = "Ok" /\ ret.deleted = 2
    /\ Cardinality(mempool_txs) = 1
    /\ \E b \in mempool_batch_binding : \A r \in mempool_txs : r.id # b.mempool_tx_id

\* remove_tx applied to a table for one hash of a list after the other.
RECURSIVE RemovedOneByOne(_, _)
RemovedOneByOne(txs_table, hs) ==
    IF hs = <<>> THEN txs_table
    ELSE RemovedOneByOne(delete_eq(txs_table, hex_encode(Head(hs))), Tail(hs))

\* C11: remove_txs(H) leaves the tables as remove_tx(h) for every h of H does,
\* in whatever order: exactly the rows of a hash of H are deleted, none for an
\* empty H, and the bindings stay.
C11_RemoveManyAsRemoves ==
    [][\A hs \in HashLists :
          RemoveTxs(hs) =>
              /\ ret'.status = "Ok"
              /\ \A order \in HashLists :
                    Range(order) = Range(hs) => mempool_txs' = RemovedOneByOne(mempool_txs, order)
              /\ mempool_txs' = {r \in mempool_txs : HashOfRow(r) \notin Range(hs)}
              /\ hs = <<>> => mempool_txs' = mempool_txs
              /\ mempool_batch_binding' = mempool_batch_binding]_vars

\* C11 witness: remove_txs deleted the two rows of one hash and left the row
\* of the other.
C11_Witness ==
    /\ ret.op = "remove_txs" /\ ret.status = "Ok" /\ ret.deleted = 2
    /\ Cardinality(mempool_txs) = 1

\* C12: effect of insert_tx. A successful insert adds one row, with an id
\* above every id handed out before, also to rows removed since; the rows and
\* bindings there were stay; a row of the same hash does not prevent it.
C12_InsertEffect ==
    [][\A t \in Txs :
          InsertTx(t) =>
              /\ ret'.status = "Ok"
              /\ mempool_txs \subseteq mempool_txs'
              /\ Cardinality(mempool_txs' \ mempool_txs) = 1
              /\ \A r \in mempool_txs' \ mempool_txs :
                    /\ r.tx_hash = hex_encode(TxHash(t))
                    /\ from_value(r.tx) = [ok |-> TRUE, tx |-> t]
                    /\ \A id \in assigned : r.id > id
                    /\ \A o \in mempool_txs : r.id > o.id
              /\ mempool_batch_binding' = mempool_batch_binding]_vars

\* C12 witness: a transaction was inserted while a row of the same hash is
\* stored and an earlier row has been removed.
C12_Witness ==
    /\ ret.op = "insert_tx" /\ ret.status = "Ok"
    /\ \E r, o \in mempool_txs : r.id = next_id - 1 /\ o.id < r.id /\ o.tx_hash = r.tx_hash
    /\ Cardinality(mempool_txs) < Cardinality(assigned)

\* The hashes collect_garbage() has retained for removal.
KeptHashes == Range(flatten_hashes(gc.kept))

\* C13: garbage collection under interleaving. Whatever runs between the
\* load, the lookups and the delete of collect_garbage(): only the delete
\* removes rows; each row it removes has a hash a lookup of this call found and
\* that is among the executed transactions; every hash retained is executed;
\* and when no row of a retained hash is left, the delete returns Ok and
\* removes nothing.
C13_InterleavedCollection ==
    [][/\ (GcLoad \/ GcLookup) => UNCHANGED <<mempool_txs, mempool_batch_binding>>
       /\ GcLookup => \A h \in Range(flatten_hashes(gc'.kept)) : h \in executed
       /\ GcRemove =>
             /\ ret'.status = "Ok"
             /\ mempool_txs' \subseteq mempool_txs
             /\ \A r \in mempool_txs \ mempool_txs' :
                   HashOfRow(r) \in KeptHashes /\ HashOfRow(r) \in executed
             /\ (\A r \in mempool_txs : HashOfRow(r) \notin KeptHashes) =>
                   mempool_txs' = mempool_txs /\ ret'.deleted = 0]_vars

\* C13 witness: collect_garbage() returned Ok having deleted nothing, because
\* the transaction it had retained was removed in between, while another
\* transaction is pending.
C13_Witness ==
    /\ ret.op = "collect_garbage" /\ ret.status = "Ok" /\ ret.deleted = 0
    /\ gc.pc = "idle" /\ gc.kept # <<>>
    /\ mempool_txs # {}

\* No stored row has an executed transaction.
Clean == \A r \in mempool_txs : HashOfRow(r) \notin executed

\* No stored row belongs to a batch.
NoBatched == \A r \in mempool_txs : ~Bound(r)

\* C14: self-healing. With collect_garbage() invoked again and again, in an
\* execution where from some point on the store holds no batched row (inserts
\* end by themselves), whenever a row with an executed transaction is stored,
\* a later state has no such row.
C14_SelfHealing == (<>[]NoBatched) => (~Clean ~> Clean)

\* C14 witness: after the last insert, a collect_garbage() has returned Ok
\* having deleted a row, and no stored row has an executed transaction.
C14_Witness ==
    /\ ret.op = "collect_garbage" /\ ret.status = "Ok" /\ ret.deleted >= 1
    /\ next_id > MaxId
    /\ executed # {} /\ Clean /\ NoBatched /\ mempool_txs # {}

\* C15: re-running garbage collection is safe. A collect_garbage() that
\* returns Ok directly after one that returned Ok, nothing having happened in
\* between, deletes nothing and leaves both tables as they were.
C15_RerunDeletesNothing ==
    [][(ret.op = "collect_garbage" /\ ret.status = "Ok" /\ CollectGarbage /\ ret'.status = "Ok") =>
           /\ ret'.deleted = 0
           /\ mempool_txs' = mempool_txs
           /\ mempool_batch_binding' = mempool_batch_binding]_vars

\* C15 also: the call directly after a successful one does return Ok.
C15_RerunSucceeds ==
    (ret.op = "collect_garbage" /\ ret.status = "Ok") =>
        garbage_collected(mempool_txs, mempool_batch_binding, executed, fault).status = "Ok"

\* C15 witness: collect_garbage() returned Ok having deleted two rows of the
\* executed transaction, a pending transaction being left.
C15_Witness ==
    /\ ret.op = "collect_garbage" /\ ret.status = "Ok" /\ ret.deleted = 2
    /\ Cardinality(executed) = 1
    /\ mempool_txs # {}

\* The positions, among the stored rows, of the members of variant i.
Covered(queue, i) == Start(queue, i)..(Start(queue, i) + Len(queue[i].txs) - 1)

\* C16: group boundaries. Whatever the bindings, the loaded variants cover
\* the stored rows in ascending id; a Tx variant stands for one unbound row;
\* a Batch variant covers rows bound to one batch id, and the row before it
\* and the row after it are not bound to that batch id: a group ends exactly
\* where the batch id changes.
C16_GroupBoundaries ==
    LET q == Loaded.queue
    IN  /\ Loaded.status = "Ok"
        /\ Flatten(q) = [k \in 1..Len(Rows) |-> TxOfRow(Rows[k])]
        /\ \A i \in 1..Len(q) :
              LET first == Start(q, i)
                  last  == Start(q, i) + Len(q[i].txs) - 1
              IN  /\ q[i].kind = "Tx" => first = last /\ BatchOf(Rows[first]) = None
                  /\ q[i].kind = "Batch" =>
                        /\ first <= last
                        /\ BatchOf(Rows[first]) # None
                        /\ \A k \in first..last : BatchOf(Rows[k]) = BatchOf(Rows[first])
                        /\ first > 1 => BatchOf(Rows[first - 1]) # BatchOf(Rows[first])
                        /\ last < Len(Rows) => BatchOf(Rows[last + 1]) # BatchOf(Rows[first])

\* C16 witness: a load returned a Batch directly followed by the Batch of
\* another batch id, and then a Tx variant.
C16_Witness ==
    /\ ret.op = "load_txs" /\ ret.status = "Ok"
    /\ Len(ret.queue) = 3
    /\ ret.queue[1].kind = "Batch" /\ ret.queue[2].kind = "Batch" /\ ret.queue[3].kind = "Tx"
    /\ BatchOf(Rows[1]) # BatchOf(Rows[2])

\* The binding whose row is gone.
Orphaned(b) == \A r \in mempool_txs : r.id # b.mempool_tx_id

\* C17: every Batch is non-empty. After any inserts, removals and bindings,
\* each Batch variant of load_txs() has at least one member and its members
\* are stored bound rows, so a batch without stored rows has no Batch; and
\* every stored bound row is a member of a Batch variant, also when it is the
\* only row of its batch.
C17_BatchNonEmpty ==
    LET q == Loaded.queue
    IN  /\ Loaded.status = "Ok"
        /\ Len(Flatten(q)) = Len(Rows)
        /\ \A i \in 1..Len(q) :
              /\ Len(q[i].txs) >= 1
              /\ q[i].kind = "Batch" => \A k \in Covered(q, i) : Bound(Rows[k])
        /\ \A k \in 1..Len(Rows) :
              Bound(Rows[k]) => \E i \in 1..Len(q) : q[i].kind = "Batch" /\ k \in Covered(q, i)
        /\ (\A r \in mempool_txs : ~Bound(r)) => \A i \in 1..Len(q) : q[i].kind = "Tx"

\* C17 witness: a load returned a Batch of one member, the other row of its
\* batch having been removed, and nothing for a batch that lost its only row.
C17_Witness ==
    /\ ret.op = "load_txs" /\ ret.status = "Ok"
    /\ Len(ret.queue) = 1
    /\ ret.queue[1].kind = "Batch" /\ Len(ret.queue[1].txs) = 1
    /\ \E b, c \in mempool_batch_binding :
          /\ Orphaned(b) /\ BatchOf(Rows[1]) = Some(b.batch_id)
          /\ Orphaned(c) /\ BatchOf(Rows[1]) # Some(c.batch_id)

\* The positions of the stored rows bound to batch b.
Members(b) == {k \in 1..Len(Rows) : BatchOf(Rows[k]) = Some(b)}

\* Every batch is loaded whole: at most one Batch variant has rows of it, and
\* that one has all its stored rows, in ascending id.
WholeBatches ==
    \E loaded \in {Loaded} :
        /\ loaded.status = "Ok"
        /\ \A b \in BatchIds :
              \E of_b \in {{i \in 1..Len(loaded.queue) :
                               /\ loaded.queue[i].kind = "Batch"
                               /\ Covered(loaded.queue, i) \cap Members(b) # {}}} :
                  /\ Cardinality(of_b) <= 1
                  /\ Members(b) # {} => Cardinality(of_b) = 1
                  /\ \A i \in of_b :
                        /\ Covered(loaded.queue, i) = Members(b)
                        /\ loaded.queue[i].txs =
                               [j \in 1..Len(loaded.queue[i].txs) |->
                                   TxOfRow(Rows[Start(loaded.queue, i) + j - 1])]

\* C18: removal keeps batches whole. A step of insert_tx, remove_tx or
\* remove_txs (any step that adds no binding) taken from a store whose
\* batches are contiguous leads to a store whose batches are contiguous and
\* are loaded whole.
C18_RemovalKeepsBatchesWhole ==
    [][(Contiguous /\ mempool_batch_binding' = mempool_batch_binding) =>
           (Contiguous' /\ WholeBatches')]_vars

\* C18 witness: remove_tx deleted the middle row of a batch of three; the two
\* rows left are bound to the batch of the orphaned binding.
C18_Witness ==
    /\ ret.op = "remove_tx" /\ ret.status = "Ok" /\ ret.deleted = 1
    /\ Len(Rows) = 2 /\ Rows[1].id = 1 /\ Rows[2].id = 3
    /\ \E b \in mempool_batch_binding :
          /\ b.mempool_tx_id = 2
          /\ BatchOf(Rows[1]) = Some(b.batch_id)
          /\ BatchOf(Rows[2]) = Some(b.batch_id)

\* C19: an orphaned binding never captures a later transaction. Whatever
\* bindings are stored, orphaned ones included, an insert_tx(t) that returns
\* Ok adds a row that no binding refers to, and load_txs() then returns what
\* it returned before followed by the Tx variant of t: no Batch appears or
\* grows.
C19_OrphanNeverCaptures ==
    [][\A t \in Txs :
          (InsertTx(t) /\ ret'.status = "Ok") =>
              /\ \A r \in mempool_txs' \ mempool_txs :
                    /\ ~Bound(r)'
                    /\ \A b \in mempool_batch_binding' : b.mempool_tx_id < r.id
              /\ \E before \in {Loaded} : \E after \in {Loaded'} :
                    /\ after.status = "Ok"
                    /\ after.queue = Append(before.queue, VariantTx(t))]_vars

\* C19 witness: insert_tx returned Ok for the row that follows, in id, a row
\* that was removed and whose binding is left, and no row is bound.
C19_Witness ==
    /\ ret.op = "insert_tx" /\ ret.status = "Ok"
    /\ \E r \in mempool_txs : \E b \in mempool_batch_binding :
          r.id = next_id - 1 /\ Orphaned(b) /\ b.mempool_tx_id = r.id - 1
    /\ \A r \in mempool_txs : ~Bound(r)

====
